---- MODULE Spec2Model ----
(***************************************************************************)
(* Model of the Aadhaar family info bot (src/unnamed/part_000, the later   *)
(* revision of src/bot.js with query tracking and the stats command).      *)
(*                                                                         *)
(* A text is a sequence of one-character strings.  Every inbound message   *)
(* adds one record to the bag `flows`; the record follows the async        *)
(* message handler from one await to the next and stays, at pc "done", as  *)
(* the log of what the message caused.  JavaScript runs a handler to its   *)
(* next await without interruption, so every action is one such segment.   *)
(***************************************************************************)
EXTENDS Integers, Sequences, FiniteSets, Bags

\* ------------------------------------------------------------------ bounds
MaxMsgs == 4
MaxStrLen == 3
MaxKeep == 4
MaxMembers == 2

\* --------------------------------------------------------- program constants
MinIdLen == 6
MaxIdLen == 15
AddressKeep == 6
IdKeep == 4

\* ------------------------------------------------------------------- inputs
Chats == {"c1", "c2"}

Digits == {"0", "1", "2", "3", "4", "5", "6", "7", "8", "9"}

T_empty == << >>
T_ab == <<"a", "b">>
T_six == <<"1", "2", "3", "4", "5", "6">>
T_padsix == <<" ", "1", "2", "3", "4", "5", "6">>
T_five == <<"1", "2", "3", "4", "5">>
T_sixteen == <<"1", "2", "3", "4", "5", "6", "7", "8", "9", "0", "1", "2", "3", "4", "5", "6">>
T_alnum == <<"1", "2", "3", "4", "5", "a">>
\* the patterns of the three bot.onText registrations
RE_start == <<"/", "s", "t", "a", "r", "t">>
RE_help == <<"/", "h", "e", "l", "p">>
RE_stats == <<"/", "s", "t", "a", "t", "s">>

T_start == RE_start
T_help == RE_help
T_stats == RE_stats
T_inner == <<"a", "/", "s", "t", "a", "t", "s">>

Texts ==
  {T_empty, T_ab, T_six, T_padsix, T_five, T_sixteen, T_alnum,
   T_start, T_help, T_stats, T_inner}

AccessCodes == {T_ab, T_six}

Tokens == {<< >>, <<"t">>}

ApiBases == {<< >>, <<"u">>}

\* ------------------------------------------------------------ text helpers
RECURSIVE TrimStart(_)
TrimStart(s) ==
  IF s # << >> /\ Head(s) = " " THEN TrimStart(Tail(s)) ELSE s

RECURSIVE TrimEnd(_)
TrimEnd(s) ==
  IF s # << >> /\ s[Len(s)] = " " THEN TrimEnd(SubSeq(s, 1, Len(s) - 1)) ELSE s

\* String(msg.text || "").trim()
Trim(s) == TrimEnd(TrimStart(s))

\* text.startsWith("/")
StartsWithSlash(s) == s # << >> /\ Head(s) = "/"

\* an unanchored regular expression of literal characters: pat occurs in s
Contains(s, pat) ==
  \E i \in 1..(Len(s) + 1) :
    /\ i + Len(pat) - 1 <= Len(s)
    /\ SubSeq(s, i, i + Len(pat) - 1) = pat

LengthOnlyFamilyId(s) == Len(s) >= MinIdLen /\ Len(s) <= MaxIdLen

\* /^\d{6,15}$/.test(text)
ValidFamilyId(s) ==
  /\ Len(s) >= MinIdLen
  /\ Len(s) <= MaxIdLen
  /\ \A i \in 1..Len(s) : s[i] \in Digits

\* !text || text.startsWith("/")
IsCommandOrEmpty(text) == text = << >> \/ StartsWithSlash(text)

\* ------------------------------------------------- gateway response bodies
\* A JSON value as the handler sees it: a string, a number or undefined.
Str(s) == [t |-> "str", s |-> s]
\* a number carries its decimal digits, which is what String(n) yields
NumOf(digits) == [t |-> "num", s |-> digits]
Num == NumOf(<<"7">>)
Undef == [t |-> "undef", s |-> << >>]

NullMember == [isNull |-> TRUE, memberName |-> Undef, memberId |-> Undef]
Member(name, id) == [isNull |-> FALSE, memberName |-> name, memberId |-> id]

\* data.memberDetailsList: undefined, an array of members, or a non-array
NoList == [t |-> "undef", items |-> << >>]
ListOf(ms) == [t |-> "array", items |-> ms]
NotAnArray == [t |-> "num", items |-> << >>]

D_null == [isNull |-> TRUE, address |-> Undef, memberDetailsList |-> NoList]
D_nolist == [isNull |-> FALSE, address |-> Str(<<"x">>), memberDetailsList |-> NoList]
D_empty == [isNull |-> FALSE, address |-> Str(<<"x">>), memberDetailsList |-> ListOf(<< >>)]
D_two ==
  [isNull |-> FALSE, address |-> Str(<<"x", "y">>),
   memberDetailsList |->
     ListOf(<<Member(Str(<<"r", "a">>), Str(<<"1", "2">>)),
              Member(Str(<<"s">>), Undef)>>)]
D_nullMember == [isNull |-> FALSE, address |-> Undef, memberDetailsList |-> ListOf(<<NullMember>>)]
D_numName ==
  [isNull |-> FALSE, address |-> Undef,
   memberDetailsList |-> ListOf(<<Member(Num, Str(<<"1">>))>>)]
D_notArray == [isNull |-> FALSE, address |-> Undef, memberDetailsList |-> NotAnArray]

Bodies == {D_null, D_nolist, D_empty, D_two, D_nullMember, D_numName, D_notArray}

\* strings over a three-character alphabet, up to MaxStrLen long
PureAlphabet == {"r", "K", "7"}

PureStrings ==
  UNION {[1..n -> PureAlphabet] : n \in 0..MaxStrLen}

PureValues == {Undef, NumOf(<<"0">>), NumOf(<<"4", "2">>)} \cup {Str(s) : s \in PureStrings}

\* field values of a body to render: absent, shorter and longer than the
\* kept tails, and a number
RenderValues ==
  {Undef, Str(<<"r", "a", "m">>),
   Str(<<"1", "2", "3", "4", "5", "6", "7", "8">>),
   NumOf(<<"9", "0", "1", "2", "3">>)}

RenderMembers == {Member(n, i) : n \in RenderValues, i \in RenderValues}

RenderBodies ==
  {[isNull |-> FALSE, address |-> a, memberDetailsList |-> ListOf(ms)] :
     a \in RenderValues,
     ms \in UNION {[1..n -> RenderMembers] : n \in 0..MaxMembers}}
    \cup {D_nullMember, D_numName, D_notArray}

BodyPresent(d) == ~d.isNull

\* !(!data || !data.memberDetailsList): an array, even an empty one, is truthy
HasMemberList(d) == ~d.isNull /\ d.memberDetailsList.t # "undef"

\* ------------------------------------------------------ masking utilities
NA == <<"N", "/", "A">>

Undefined == <<"u", "n", "d", "e", "f", "i", "n", "e", "d">>

\* JavaScript truthiness: undefined, "" and 0 are falsy
Truthy(v) ==
  \/ v.t = "str" /\ v.s # << >>
  \/ v.t = "num" /\ v.s # <<"0">>

\* String(v), also what a template literal yields for v
StringOf(v) == IF v.t = "undef" THEN Undefined ELSE v.s

\* "*".repeat(n)
Stars(n) == [i \in 1..n |-> "*"]

\* s.slice(-k): -0 is 0, so s.slice(-0) is the whole of s
SliceFromEnd(s, k) ==
  IF k = 0 \/ k >= Len(s) THEN s ELSE SubSeq(s, Len(s) - k + 1, Len(s))

LowerCase ==
  <<"a", "b", "c", "d", "e", "f", "g", "h", "i", "j", "k", "l", "m",
    "n", "o", "p", "q", "r", "s", "t", "u", "v", "w", "x", "y", "z">>

UpperCase ==
  <<"A", "B", "C", "D", "E", "F", "G", "H", "I", "J", "K", "L", "M",
    "N", "O", "P", "Q", "R", "S", "T", "U", "V", "W", "X", "Y", "Z">>

\* ch.toUpperCase() for one character
ToUpperCase(ch) ==
  IF \E i \in 1..Len(LowerCase) : LowerCase[i] = ch
    THEN UpperCase[CHOOSE i \in 1..Len(LowerCase) : LowerCase[i] = ch]
    ELSE ch

\* maskString(str, keepLast), lines 27-31
MaskString(v, keepLast) ==
  IF ~Truthy(v) THEN NA
  ELSE LET s == StringOf(v)
       IN  IF Len(s) <= keepLast THEN Stars(Len(s))
           ELSE Stars(Len(s) - keepLast) \o SliceFromEnd(s, keepLast)

\* maskName(name) throws when name is truthy and has no character at index 0
MaskNameThrows(name) == Truthy(name) /\ name.t = "num"

MaskNameKeepsTwo(name) ==
  IF ~Truthy(name) THEN NA
  ELSE IF Len(name.s) < 2 THEN <<ToUpperCase(name.s[1]), ".">>
  ELSE <<ToUpperCase(name.s[1]), name.s[2], ".">> \o Stars(Len(name.s) - 2)

\* maskName(name), lines 33-36, where it does not throw
MaskName(name) ==
  IF ~Truthy(name) THEN NA
  ELSE <<ToUpperCase(name.s[1]), ".">> \o Stars(Len(name.s) - 1)

\* safeLine(label, value): value ?? "N/A"
SafeLine(v) == IF v.t = "undef" THEN NA ELSE v.s

\* line 123 and safeLine("Address", address)
RenderAddress(d, show) ==
  IF show THEN SafeLine(d.address) ELSE MaskString(d.address, AddressKeep)

\* line 129 and its interpolation
RenderName(m, show) ==
  IF show THEN StringOf(m.memberName) ELSE MaskName(m.memberName)

RenderIdRaw(m, show) == StringOf(m.memberId)

\* line 131 and its interpolation
RenderId(m, show) ==
  IF show THEN StringOf(m.memberId) ELSE MaskString(m.memberId, IdKeep)

\* lines 146-148
Banner(show) == IF show THEN "warning" ELSE "masked"

\* The rendering of lines 123-149 raises a TypeError when the member list is
\* not an array, when a member is null, or when a name that is not a string
\* is masked.
RenderThrows(d, show) ==
  \/ d.memberDetailsList.t # "array"
  \/ \E k \in 1..Len(d.memberDetailsList.items) :
       LET m == d.memberDetailsList.items[k]
       IN  m.isNull \/ (~show /\ MaskNameThrows(m.memberName))

NoRender == [throws |-> TRUE, address |-> << >>, members |-> << >>, banner |-> "none"]

\* The sensitive parts of the message of lines 123-149: the address line,
\* the name and the identifier of each member in input order, the banner.
\* (Scheme, district, state and relationship are never masked.)
Render(d, show) ==
  IF RenderThrows(d, show) THEN NoRender
  ELSE [throws |-> FALSE,
        address |-> RenderAddress(d, show),
        members |->
          [k \in 1..Len(d.memberDetailsList.items) |->
             [name |-> RenderName(d.memberDetailsList.items[k], show),
              id |-> RenderId(d.memberDetailsList.items[k], show)]],
        banner |-> Banner(show)]

\* ---------------------------------------------------------- session store
NoSession == [exists |-> FALSE, authorized |-> FALSE, queries |-> 0]

GrantWithoutFlag(users, c) ==
  [users EXCEPT ![c] = [exists |-> TRUE, authorized |-> FALSE, queries |-> 0]]

\* authorizedUsers[chatId] = { authorized: true, queries: 0 }
Grant(users, c) ==
  [users EXCEPT ![c] = [exists |-> TRUE, authorized |-> TRUE, queries |-> 0]]

IncQueriesDropFlag(users, c) ==
  [users EXCEPT ![c] = [exists |-> TRUE, authorized |-> FALSE, queries |-> @.queries + 1]]

IncQueriesTwice(users, c) == [users EXCEPT ![c].queries = @ + 2]

\* authorizedUsers[chatId].queries++
IncQueries(users, c) == [users EXCEPT ![c].queries = @ + 1]

IncTotalSkipped(n) == n

IncTotalTwice(n) == n + 2

\* totalLookups++
IncTotal(n) == n + 1

DenyCreatesSession(users, c) ==
  [users EXCEPT ![c] = [exists |-> TRUE, authorized |-> FALSE, queries |-> 0]]

\* the else branch of lines 93-95 writes nothing to authorizedUsers
Deny(users, c) == users

\* Object.keys(authorizedUsers).length
TotalUsers(users) == Cardinality({c \in DOMAIN users : users[c].exists})

\* the figures of statsMsg, lines 67-76
StatsMsg(users, total, c) ==
  [totalUsers |-> TotalUsers(users), yourQueries |-> users[c].queries,
   totalLookups |-> total]

SessionCheckSkipped(users, c) == FALSE

\* !authorizedUsers[chatId]
NoSessionFor(users, c) == ~users[c].exists

\* !authorizedUsers[chatId] || !authorizedUsers[chatId].authorized
StatsDenied(users, c) == ~users[c].exists \/ ~users[c].authorized

PrefixMatches(text, code) ==
  Len(text) >= Len(code) /\ SubSeq(text, 1, Len(code)) = code

\* text === ACCESS_CODE
CodeMatches(text, code) == text = code

\* ------------------------------------------------------------------ state
VARIABLES
  TOKEN,            \* process.env.TELEGRAM_TOKEN (<< >> when unset or empty)
  API_BASE,         \* process.env.AADHAR_API_BASE (<< >> when unset or empty)
  proc,             \* the process: start-up phase, exit status, transport
  pure,             \* the last application of a utility function to inputs
  ACCESS_CODE,      \* process.env.ACCESS_CODE (<< >> when unset or empty)
  SHOW_SENSITIVE,   \* process.env.SHOW_SENSITIVE, lower-cased, equals "true"
  authorizedUsers,  \* chat -> session (NoSession where the object has no key)
  totalLookups,
  flows             \* bag of the handlings of the messages received so far

vars ==
  <<TOKEN, API_BASE, proc, pure, ACCESS_CODE, SHOW_SENSITIVE, authorizedUsers,
    totalLookups, flows>>

\* pc: the await the handler is suspended at (sendFetching, fetch, json,
\* sendRecord), or done.
\* notices: the sendMessage calls issued for this message, in order.
\* calls: fetch calls issued.  resp: what the gateway delivered.
\* dq, dt, mutated: what this message's handling did to the chat's queries,
\* to totalLookups and to the store at all.  authAtStart / authAfter: the
\* chat's authorized flag when the message arrived / when the synchronous
\* part of its handling returned.
\* shown: the figures of the stats reply, when the message drew one.
\* seen: when it did, the number of chats a non-command message had come
\* from and the number of chats that had drawn the granted notice.
NoStats == [totalUsers |-> 0, yourQueries |-> 0, totalLookups |-> 0]

NewFlow(c, t) ==
  [pc |-> "done", chat |-> c, text |-> t, notices |-> << >>,
   calls |-> 0, resp |-> "none", dq |-> 0, dt |-> 0, mutated |-> FALSE,
   authAtStart |-> FALSE, authAfter |-> FALSE,
   shown |-> NoStats, seen |-> [contacted |-> 0, granted |-> 0]]

\* proc.phase: boot (the module body has not reached line 13), running
\* (the bot is constructed and its listeners are registered) or exited.
\* proc.polling: new TelegramBot(TOKEN, { polling: true }) has run.
\* proc.listeners: the bot.onText / bot.on registrations have run.
Booting == [phase |-> "boot", exitStatus |-> 0, polling |-> FALSE, listeners |-> FALSE]

\* no utility function applied
NoPure ==
  [op |-> "none", arg |-> Undef, keep |-> 0, data |-> D_null, done |-> FALSE,
   out |-> << >>, throws |-> FALSE, rendered |-> NoRender]

\* The environment the process is started in, and the module-level state of
\* lines 8-24 before the start-up check.
Init ==
  /\ TOKEN \in Tokens
  /\ API_BASE \in ApiBases
  /\ ACCESS_CODE \in AccessCodes \cup {<< >>}
  /\ SHOW_SENSITIVE \in BOOLEAN
  /\ proc = Booting
  /\ pure = NoPure
  /\ authorizedUsers = [c \in Chats |-> NoSession]
  /\ totalLookups = 0
  /\ flows = EmptyBag

StartIgnoresAccessCode(token, base, code) == token = << >> \/ base = << >>

\* !TOKEN || !API_BASE || !ACCESS_CODE
MissingConfig(token, base, code) == token = << >> \/ base = << >> \/ code = << >>

\* Lines 13-82: process.exit(1) on missing configuration, otherwise the bot
\* is constructed with polling and the listeners are registered.
Start ==
  /\ proc.phase = "boot"
  /\ proc' = IF MissingConfig(TOKEN, API_BASE, ACCESS_CODE)
               THEN [proc EXCEPT !.phase = "exited", !.exitStatus = 1]
               ELSE [proc EXCEPT !.phase = "running", !.polling = TRUE,
                                 !.listeners = TRUE]
  /\ UNCHANGED <<TOKEN, API_BASE, pure, ACCESS_CODE, SHOW_SENSITIVE, authorizedUsers,
                 totalLookups, flows>>

\* one copy of f in the bag becomes g
Step(bag, f, g) == (bag (-) SetToBag({f})) (+) SetToBag({g})

\* The synchronous part of the message handler, lines 83-106: the store and
\* the flow it leaves behind.
HandleMessage(users, code, c, t) ==
  LET text == Trim(t)
      base == [NewFlow(c, t) EXCEPT !.authAtStart = users[c].authorized]
  IN  IF IsCommandOrEmpty(text)
        THEN [users |-> users, flow |-> base]
      ELSE IF NoSessionFor(users, c)
        THEN IF CodeMatches(text, code)
               THEN [users |-> Grant(users, c),
                     flow |-> [base EXCEPT !.notices = <<"granted">>]]
               ELSE [users |-> Deny(users, c),
                     flow |-> [base EXCEPT !.notices = <<"denied">>]]
      ELSE IF ~ValidFamilyId(text)
        THEN [users |-> users, flow |-> [base EXCEPT !.notices = <<"invalid">>]]
      ELSE [users |-> users,
            flow |-> [base EXCEPT !.notices = <<"fetching">>, !.pc = "sendFetching"]]

\* bot.onText(/\/start/, ...)
OnStart(t) == IF Contains(t, RE_start) THEN <<"greet">> ELSE << >>

\* bot.onText(/\/help/, ...)
OnHelp(t) == IF Contains(t, RE_help) THEN <<"help">> ELSE << >>

\* bot.onText(/\/stats/, ...)
OnStats(users, c, t) ==
  IF ~Contains(t, RE_stats) THEN << >>
  ELSE IF StatsDenied(users, c) THEN <<"statsDenied">>
  ELSE <<"stats">>

\* An update with text t arrives from chat c: the "message" listener runs up
\* to its first await, then the text listeners in registration order.
Receive(c, t) ==
  /\ proc.phase = "running" /\ proc.polling /\ proc.listeners
  /\ BagCardinality(flows) < MaxMsgs
  /\ LET h == HandleMessage(authorizedUsers, ACCESS_CODE, c, t)
         st == OnStats(h.users, c, t)
         before == BagToSet(flows)
         contacted ==
           {g.chat : g \in {x \in before : ~IsCommandOrEmpty(Trim(x.text))}}
             \cup (IF IsCommandOrEmpty(Trim(t)) THEN {} ELSE {c})
         granted ==
           {g.chat : g \in {x \in before : x.notices # << >> /\ Head(x.notices) = "granted"}}
             \cup (IF h.flow.notices = <<"granted">> THEN {c} ELSE {})
         f == [h.flow EXCEPT
                 !.notices = @ \o OnStart(t) \o OnHelp(t) \o st,
                 !.mutated = (h.users # authorizedUsers),
                 !.authAfter = h.users[c].authorized,
                 !.shown = IF st = <<"stats">>
                             THEN StatsMsg(h.users, totalLookups, c) ELSE NoStats,
                 !.seen = IF st = <<"stats">>
                            THEN [contacted |-> Cardinality(contacted),
                                  granted |-> Cardinality(granted)]
                            ELSE @]
     IN  /\ authorizedUsers' = h.users
         /\ flows' = flows (+) SetToBag({f})
  /\ UNCHANGED <<TOKEN, API_BASE, proc, pure, ACCESS_CODE, SHOW_SENSITIVE, totalLookups>>

\* catch (err) { ...; bot.sendMessage(chatId, "Failed to fetch data: ...") }
Catch(f) == [f EXCEPT !.notices = Append(@, "failed"), !.pc = "done"]

\* await bot.sendMessage(chatId, "Fetching ...") settles; on success the
\* handler builds the url and calls fetch.
SendFetchingSettled(f, ok) ==
  /\ f.pc = "sendFetching"
  /\ flows' = Step(flows, f, IF ok THEN [f EXCEPT !.pc = "fetch", !.calls = @ + 1]
                                ELSE Catch(f))
  /\ UNCHANGED <<TOKEN, API_BASE, proc, pure, ACCESS_CODE, SHOW_SENSITIVE, authorizedUsers, totalLookups>>

\* await fetch(url) settles: rejected (network), or a response whose ok flag
\* decides between throwing HTTP <status> and calling res.json().
FetchSettled(f, outcome) ==
  /\ f.pc = "fetch"
  /\ flows' = Step(flows, f,
                    CASE outcome = "network" -> Catch([f EXCEPT !.resp = "network"])
                      [] outcome = "http" -> Catch([f EXCEPT !.resp = "http"])
                      [] OTHER -> [f EXCEPT !.pc = "json"])
  /\ UNCHANGED <<TOKEN, API_BASE, proc, pure, ACCESS_CODE, SHOW_SENSITIVE, authorizedUsers, totalLookups>>

\* await res.json() rejects: the body is not JSON
JsonRejected(f) ==
  /\ f.pc = "json"
  /\ flows' = Step(flows, f, Catch([f EXCEPT !.resp = "parse"]))
  /\ UNCHANGED <<TOKEN, API_BASE, proc, pure, ACCESS_CODE, SHOW_SENSITIVE, authorizedUsers, totalLookups>>

\* what the gateway delivered, for the record kept in the flow
BodyKind(d) ==
  IF d.isNull \/ d.memberDetailsList.t = "undef" THEN "nolist" ELSE "list"

\* Lines 113-151 for a parsed body d: the store, the counter and the flow.
OnBody(users, total, show, f, d) ==
  LET g == [f EXCEPT !.resp = BodyKind(d)]
  IN  IF ~HasMemberList(d)
        THEN [users |-> users, total |-> total,
              flow |-> [g EXCEPT !.pc = "done", !.notices = Append(@, "notfound")]]
      ELSE [users |-> IncQueries(users, f.chat),
            total |-> IncTotal(total),
            flow |-> IF RenderThrows(d, show) THEN Catch(g)
                     ELSE [g EXCEPT !.pc = "sendRecord",
                                    !.notices = Append(@, "record")]]

\* await res.json() resolves with d
JsonParsed(f, d) ==
  /\ f.pc = "json"
  /\ LET r == OnBody(authorizedUsers, totalLookups, SHOW_SENSITIVE, f, d)
         c == f.chat
     IN  /\ authorizedUsers' = r.users
         /\ totalLookups' = r.total
         /\ flows' = Step(flows, f,
                          [r.flow EXCEPT
                             !.dq = @ + (r.users[c].queries - authorizedUsers[c].queries),
                             !.dt = @ + (r.total - totalLookups),
                             !.mutated = @ \/ r.users # authorizedUsers
                                           \/ r.total # totalLookups])
  /\ UNCHANGED <<TOKEN, API_BASE, proc, pure, ACCESS_CODE, SHOW_SENSITIVE>>

\* await bot.sendMessage(chatId, message, ...) settles
SendRecordSettled(f, ok) ==
  /\ f.pc = "sendRecord"
  /\ flows' = Step(flows, f, IF ok THEN [f EXCEPT !.pc = "done"] ELSE Catch(f))
  /\ UNCHANGED <<TOKEN, API_BASE, proc, pure, ACCESS_CODE, SHOW_SENSITIVE, authorizedUsers, totalLookups>>

Next ==
  \/ Start
  \/ \E c \in Chats, t \in Texts : Receive(c, t)
  \/ \E f \in BagToSet(flows), ok \in BOOLEAN : SendFetchingSettled(f, ok)
  \/ \E f \in BagToSet(flows), o \in {"network", "http", "ok"} : FetchSettled(f, o)
  \/ \E f \in BagToSet(flows) : JsonRejected(f)
  \/ \E f \in BagToSet(flows), d \in Bodies : JsonParsed(f, d)
  \/ \E f \in BagToSet(flows), ok \in BOOLEAN : SendRecordSettled(f, ok)

Spec == Init /\ [][Next]_vars

\* ------------------------------------------- the utility functions alone
\* one application of a utility function that is still to be evaluated
PureRequests ==
  {[NoPure EXCEPT !.op = "maskString", !.arg = v, !.keep = k] :
     v \in PureValues, k \in 0..MaxKeep}
    \cup {[NoPure EXCEPT !.op = "maskName", !.arg = v] : v \in PureValues}
    \cup {[NoPure EXCEPT !.op = "render", !.data = d] : d \in RenderBodies}

InitPure ==
  /\ TOKEN = <<"t">>
  /\ API_BASE = <<"u">>
  /\ ACCESS_CODE = T_six
  /\ SHOW_SENSITIVE \in BOOLEAN
  /\ proc = Booting
  /\ pure \in PureRequests
  /\ authorizedUsers = [c \in Chats |-> NoSession]
  /\ totalLookups = 0
  /\ flows = EmptyBag

unchangedByPure ==
  <<TOKEN, API_BASE, proc, ACCESS_CODE, SHOW_SENSITIVE, authorizedUsers, totalLookups,
    flows>>

ApplyMaskString ==
  /\ pure.op = "maskString" /\ ~pure.done
  /\ pure' = [pure EXCEPT !.done = TRUE, !.out = MaskString(pure.arg, pure.keep)]
  /\ UNCHANGED unchangedByPure

ApplyMaskName ==
  /\ pure.op = "maskName" /\ ~pure.done
  /\ pure' = IF MaskNameThrows(pure.arg)
               THEN [pure EXCEPT !.done = TRUE, !.throws = TRUE]
               ELSE [pure EXCEPT !.done = TRUE, !.out = MaskName(pure.arg)]
  /\ UNCHANGED unchangedByPure

ApplyRender ==
  /\ pure.op = "render" /\ ~pure.done
  /\ pure' = [pure EXCEPT !.done = TRUE, !.rendered = Render(pure.data, SHOW_SENSITIVE),
                          !.throws = RenderThrows(pure.data, SHOW_SENSITIVE)]
  /\ UNCHANGED unchangedByPure

NextPure == ApplyMaskString \/ ApplyMaskName \/ ApplyRender

SpecPure == InitPure /\ [][NextPure]_vars

\* ================================================================ properties
AllFlows == BagToSet(flows)

InFlight(f) == f.pc # "done"

Has(f, n) == \E k \in 1..Len(f.notices) : f.notices[k] = n

LastNotice(f) == IF f.notices = << >> THEN "none" ELSE f.notices[Len(f.notices)]

\* number of flows in the bag that satisfy P
CountFlows(P(_)) ==
  LET S == {f \in AllFlows : P(f)}
  IN  BagCardinality([f \in S |-> flows[f]])

\* the text the handler works on is neither empty nor a command
NonCommand(t) == Trim(t) # << >> /\ Head(Trim(t)) # "/"

\* s consists of 6 to 15 decimal digits
SixToFifteenDigits(s) ==
  Len(s) \in 6..15 /\ \A k \in 1..Len(s) : s[k] \in Digits

\* C1: once a chat's authorized flag is true it is true in every later state.
C1_AuthorizedNeverReverts ==
  [][\A c \in Chats : authorizedUsers[c].authorized => authorizedUsers'[c].authorized]_vars

\* an authorized chat whose later lookup has been counted and has finished
C1_Witness ==
  \E f \in AllFlows :
    /\ f.authAtStart /\ f.pc = "done" /\ f.dq = 1
    /\ authorizedUsers[f.chat].authorized

C3_OneIncrementPerSuccess ==
  /\ \A c \in Chats :
       LET OkFor(f) == f.chat = c /\ f.resp = "list"
       IN  authorizedUsers[c].queries = CountFlows(OkFor)
  /\ LET Ok(f) == f.resp = "list"
     IN  totalLookups = CountFlows(Ok)
  /\ \A f \in AllFlows : f.resp = "list" => f.dq = 1 /\ f.dt = 1

\* lookups of two different chats have both been counted while both flows
\* are still awaiting their final send
C3_Witness ==
  \E c1 \in Chats, c2 \in Chats :
    /\ c1 # c2
    /\ authorizedUsers[c1].queries = 1
    /\ authorizedUsers[c2].queries = 1
    /\ \E f \in AllFlows, g \in AllFlows :
         /\ f.chat = c1 /\ g.chat = c2
         /\ f.pc = "sendRecord" /\ g.pc = "sendRecord"

\* C4: when the gateway call fails (network error, non-success status,
\* unparseable body) or the parsed body lacks the member list, the handling
\* of that message has changed neither the chat's queries nor totalLookups,
\* and it ends with the failure notice or the not-found notice.
C4_GatewayFailureLeavesCounters ==
  \A f \in AllFlows :
    f.resp \in {"network", "http", "parse", "nolist"} =>
      /\ f.pc = "done" /\ f.authAtStart
      /\ f.dq = 0 /\ f.dt = 0 /\ ~f.mutated
      /\ LastNotice(f) = (IF f.resp = "nolist" THEN "notfound" ELSE "failed")

\* one lookup ended on HTTP failure and another on a body without members
C4_Witness ==
  /\ \E f \in AllFlows : f.resp = "http" /\ LastNotice(f) = "failed"
  /\ \E f \in AllFlows : f.resp = "nolist" /\ LastNotice(f) = "notfound"

\* C5: a message whose handling ends in the generic failure notice has
\* changed neither the chat's queries nor totalLookups.
C5_FailureNoticeLeavesCounters ==
  \A f \in AllFlows :
    (f.pc = "done" /\ LastNotice(f) = "failed") => f.dq = 0 /\ f.dt = 0

\* C6: every session's queries is at most totalLookups.
C6_QueriesAtMostTotal ==
  \A c \in Chats : authorizedUsers[c].queries <= totalLookups

\* two chats have each been counted, so each is strictly below the total
C6_Witness ==
  \E c1 \in Chats, c2 \in Chats :
    /\ c1 # c2
    /\ authorizedUsers[c1].queries >= 1
    /\ authorizedUsers[c2].queries >= 1
    /\ authorizedUsers[c1].queries < totalLookups

\* C7: no session has queries > 0 while its authorized flag is false, and a
\* message whose handling incremented a counter came from a chat that was
\* authorized when it arrived.
C7_CountedOnlyWhenAuthorized ==
  /\ \A c \in Chats : authorizedUsers[c].queries > 0 => authorizedUsers[c].authorized
  /\ \A f \in AllFlows : (f.dq > 0 \/ f.dt > 0) => f.authAtStart

\* a chat that has been counted, next to a chat without a session
C7_Witness ==
  \E c1 \in Chats, c2 \in Chats :
    /\ authorizedUsers[c1].queries > 0
    /\ ~authorizedUsers[c2].exists
    /\ \E f \in AllFlows : f.chat = c2 /\ Has(f, "denied")

C9_CodeAgainChangesNothing ==
  \A f \in AllFlows :
    (f.authAtStart /\ f.text = ACCESS_CODE) =>
      /\ ~Has(f, "fetching") /\ f.calls = 0
      /\ ~f.mutated /\ f.dq = 0 /\ f.dt = 0

\* C10: no two handler flows of the same chat are in progress at once.
C10_OneFlowPerChat ==
  \A c \in Chats :
    LET Running(f) == f.chat = c /\ InFlight(f)
    IN  CountFlows(Running) <= 1

\* C14: when one of TOKEN, API_BASE, ACCESS_CODE is absent or empty, the
\* start-up check ends the process with a nonzero status: the bot is never
\* constructed, no listener is registered and no message is ever handled.
C14_MissingConfigExits ==
  (TOKEN = << >> \/ API_BASE = << >> \/ ACCESS_CODE = << >>) =>
    /\ proc.phase \in {"boot", "exited"}
    /\ proc.phase = "exited" => proc.exitStatus # 0
    /\ ~proc.polling /\ ~proc.listeners
    /\ flows = EmptyBag
    /\ \A c \in Chats : ~authorizedUsers[c].exists

\* the process has exited because only the access code was missing
C14_Witness ==
  /\ TOKEN # << >> /\ API_BASE # << >> /\ ACCESS_CODE = << >>
  /\ proc.phase = "exited" /\ proc.exitStatus = 1

\* C11 (amended): a message with a wrong code creates no session; a session
\* exists exactly for the chats that drew the granted notice, it is created
\* with authorized = true, and the totalUsers figure of the stats reply is
\* the number of those chats: a chat that was only ever denied is not counted.
C11_SessionsAreGrantedChats ==
  /\ \A c \in Chats :
       /\ authorizedUsers[c].exists <=> \E f \in AllFlows : f.chat = c /\ Has(f, "granted")
       /\ authorizedUsers[c].exists => authorizedUsers[c].authorized
  /\ \A f \in AllFlows :
       /\ Has(f, "granted") => f.dq = 0 /\ f.authAfter
       /\ Has(f, "stats") => f.shown.totalUsers = f.seen.granted

\* a stats reply that counted one user after two chats had sent a code, one
\* of them a wrong one
C11_Witness ==
  \E f \in AllFlows, g \in AllFlows :
    /\ Has(f, "stats") /\ f.shown.totalUsers = 1 /\ f.seen.contacted = 2
    /\ Has(g, "denied") /\ g.chat # f.chat /\ ~authorizedUsers[g.chat].exists

\* C11 as stated: the first non-command message of a chat creates its
\* session even when the code is wrong, and totalUsers counts every chat a
\* non-command message has come from.
C11_SessionOnFirstContact ==
  /\ \A f \in AllFlows : NonCommand(f.text) => authorizedUsers[f.chat].exists
  /\ \A f \in AllFlows : Has(f, "stats") => f.shown.totalUsers = f.seen.contacted

\* C12: a failure to send the fetching notice does not abort the flow: every
\* flow that is past that send has called the gateway.
C12_FetchingNoticeBestEffort ==
  \A f \in AllFlows :
    (Has(f, "fetching") /\ f.pc # "sendFetching") => f.calls = 1

HandlerNotices == {"granted", "denied", "invalid", "fetching", "notfound", "record", "failed"}

CommandNotices == {"greet", "help", "stats", "statsDenied"}

\* C13: a message that is empty or starts with "/" draws no notice of the
\* access-code / lookup flow and changes no state; every other message draws
\* no command reply.
C13_ExactlyOnePath ==
  \A f \in AllFlows :
    IF NonCommand(f.text)
      THEN \A k \in 1..Len(f.notices) : f.notices[k] \notin CommandNotices
      ELSE /\ \A k \in 1..Len(f.notices) : f.notices[k] \notin HandlerNotices
           /\ f.pc = "done" /\ f.calls = 0 /\ ~f.mutated

RECURSIVE SumQueries(_, _)
SumQueries(users, S) ==
  IF S = {} THEN 0
  ELSE LET c == CHOOSE x \in S : TRUE
       IN  users[c].queries + SumQueries(users, S \ {c})

\* C18: in every state, hence in every state another handler can observe
\* between two awaits, totalLookups is the sum of queries over all sessions,
\* and a stats reply never shows a chat more queries than total lookups.
C18_TotalIsSumOfQueries ==
  /\ totalLookups = SumQueries(authorizedUsers, Chats)
  /\ \A f \in AllFlows : Has(f, "stats") => f.shown.yourQueries <= f.shown.totalLookups

\* a chat drew a stats reply showing the lookup counted for another chat,
\* whose flow is still awaiting its final send
C18_Witness ==
  \E f \in AllFlows, g \in AllFlows :
    /\ Has(f, "stats") /\ f.shown.totalLookups = 1 /\ f.shown.yourQueries = 0
    /\ g.chat # f.chat /\ g.pc = "sendRecord" /\ g.dq = 1

\* chat c has sent a message whose trimmed text is the access code
SentCode(c) == \E g \in AllFlows : g.chat = c /\ Trim(g.text) = ACCESS_CODE

\* C19 (amended): a message causes at most one gateway call, and only a
\* non-command message of a chat authorized at that moment whose text, after
\* trimming surrounding whitespace, is 6 to 15 decimal digits causes one; a
\* chat that never sent a message whose trimmed text is the access code gets
\* no gateway call, no record and no stats figures.
C19_GatewayOnlyForAuthorizedIds ==
  /\ \A f \in AllFlows :
       /\ f.calls <= 1
       /\ f.calls = 1 =>
            f.authAtStart /\ NonCommand(f.text) /\ SixToFifteenDigits(Trim(f.text))
       /\ f.resp # "none" => f.calls = 1
  /\ \A f \in AllFlows :
       ~SentCode(f.chat) =>
         /\ f.calls = 0 /\ ~Has(f, "fetching") /\ ~Has(f, "record")
         /\ ~Has(f, "stats") /\ f.shown = NoStats

\* a padded identifier caused a call that failed and was not retried, and a
\* chat that never sent the code was refused both a lookup and the stats
C19_Witness ==
  /\ \E f \in AllFlows :
       f.text # Trim(f.text) /\ f.calls = 1 /\ f.resp = "http" /\ f.pc = "done"
  /\ \E c \in Chats :
       /\ ~SentCode(c)
       /\ \E f \in AllFlows : f.chat = c /\ Has(f, "denied") /\ SixToFifteenDigits(f.text)
       /\ \E f \in AllFlows : f.chat = c /\ Has(f, "statsDenied")

\* C19 as stated: only a text that is itself 6 to 15 decimal digits causes a
\* gateway call, and a chat that never sent the access code gets none.
C19_GatewayOnlyForExactIds ==
  /\ \A f \in AllFlows :
       /\ f.calls <= 1
       /\ f.calls = 1 => f.authAtStart /\ NonCommand(f.text) /\ SixToFifteenDigits(f.text)
  /\ \A f \in AllFlows :
       (\A g \in AllFlows : g.chat = f.chat => g.text # ACCESS_CODE) =>
         f.calls = 0 /\ ~Has(f, "record") /\ ~Has(f, "stats")

TerminalNotices == {"granted", "denied", "invalid", "notfound", "record", "failed"}

TerminalCount(f) == Cardinality({k \in 1..Len(f.notices) : f.notices[k] \in TerminalNotices})

\* C20: a non-command message whose handler has terminated has drawn exactly
\* one terminal notice, and never both the rendered record and the failure
\* notice.
C20_OneTerminalNotice ==
  \A f \in AllFlows :
    (f.pc = "done" /\ NonCommand(f.text)) =>
      /\ TerminalCount(f) = 1
      /\ ~(Has(f, "record") /\ Has(f, "failed"))

\* the application of a utility function has been evaluated
Applied(op) == pure.op = op /\ pure.done

AllStars(s) == \A i \in 1..Len(s) : s[i] = "*"

\* C15: for every rendered record: with SHOW_SENSITIVE the address, each
\* member name and each member identifier are the input values verbatim and
\* the warning banner is present; without it the address is
\* maskString(address, 6), each name maskName(name), each identifier
\* maskString(id, 4), and the masked notice replaces the warning banner.
C15_RenderedFields ==
  (Applied("render") /\ ~pure.throws) =>
    LET d == pure.data
        r == pure.rendered
        ms == d.memberDetailsList.items
    IN  /\ ~r.throws
        /\ Len(r.members) = Len(ms)
        /\ IF SHOW_SENSITIVE
             THEN /\ r.banner = "warning"
                  /\ d.address.t # "undef" => r.address = d.address.s
                  /\ \A k \in 1..Len(ms) :
                       /\ ms[k].memberName.t # "undef" => r.members[k].name = ms[k].memberName.s
                       /\ ms[k].memberId.t # "undef" => r.members[k].id = ms[k].memberId.s
             ELSE /\ r.banner = "masked"
                  /\ r.address = MaskString(d.address, 6)
                  /\ \A k \in 1..Len(ms) :
                       /\ r.members[k].name = MaskName(ms[k].memberName)
                       /\ r.members[k].id = MaskString(ms[k].memberId, 4)

\* a record of two members has been rendered masked, its eight-character
\* address keeping its last six characters and an identifier its last four
C15_Witness ==
  /\ Applied("render") /\ ~pure.throws /\ ~SHOW_SENSITIVE
  /\ Len(pure.rendered.members) = 2
  /\ pure.rendered.address = <<"*", "*", "3", "4", "5", "6", "7", "8">>
  /\ pure.rendered.members[1].name = <<"R", ".", "*", "*">>
  /\ pure.rendered.members[2].id = <<"*", "*", "*", "*", "5", "6", "7", "8">>

\* C16: for any string v, the empty one included, and any k >= 0 the output
\* of maskString(v, k) is as long as v; longer than k, it is length(v) - k
\* stars followed by the last k characters of v, otherwise it is all stars.
C16_MaskTailShape ==
  (Applied("maskString") /\ pure.arg.t = "str") =>
    LET s == pure.arg.s
        k == pure.keep
        out == pure.out
    IN  /\ Len(out) = Len(s)
        /\ IF Len(s) > k
             THEN /\ \A i \in 1..(Len(s) - k) : out[i] = "*"
                  /\ \A i \in (Len(s) - k + 1)..Len(s) : out[i] = s[i]
             ELSE AllStars(out)

\* C17: for a non-empty string v, maskName(v) is the upper-cased first
\* character of v, a ".", and length(v) - 1 stars, so nothing of v beyond its
\* first character is in the output; for an absent or empty v it is "N/A".
C17_MaskNameShape ==
  (Applied("maskName") /\ pure.arg.t # "num") =>
    LET s == pure.arg.s
        out == pure.out
    IN  /\ ~pure.throws
        /\ IF pure.arg.t = "undef" \/ s = << >>
             THEN out = <<"N", "/", "A">>
             ELSE /\ Len(out) = Len(s) + 1
                  /\ out[1] = (CASE s[1] = "r" -> "R" [] s[1] = "K" -> "K" [] OTHER -> "7")
                  /\ out[2] = "."
                  /\ \A i \in 3..Len(out) : out[i] = "*"

\* a three-character name starting with a lower-case letter has been masked
C17_Witness ==
  /\ Applied("maskName")
  /\ pure.arg = Str(<<"r", "K", "7">>)
  /\ pure.out = <<"R", ".", "*", "*">>

====
